---- MODULE Spec2Model ----
\* A model of auto-favicon-injector (lib/injector.js): hasFavicon, injectFavicon
\* and injectDir, running against a small file system whose operations can fail.
\*
\* Text is modelled as a sequence of one-character strings, so that startsWith,
\* endsWith, toLowerCase and path.extname are computed, not tabulated.
\* An HTML file is modelled by the list of elements of its head and of its body
\* and by whether its text holds a head tag; an element is a tag name and the
\* ordered list of its attributes.
EXTENDS Integers, Sequences, FiniteSets, TLC

\* ---------------------------------------------------------------- bounds
\* Number of file system operations that may fail in one behaviour.
MaxFaults == 1
\* Number of entries of the scanned root directory.
MaxEntries == 2
\* Number of successive injectFavicon calls on one file.
MaxCalls == 2

\* ---------------------------------------------------------------- text
Max(S) == CHOOSE x \in S : \A y \in S : y <= x
Min(S) == CHOOSE x \in S : \A y \in S : x <= y

UpperChars == <<"A","B","C","D","E","F","G","H","I","J","K","L","M",
                "N","O","P","Q","R","S","T","U","V","W","X","Y","Z">>
LowerChars == <<"a","b","c","d","e","f","g","h","i","j","k","l","m",
                "n","o","p","q","r","s","t","u","v","w","x","y","z">>

LowerChar(c) ==
    IF \E i \in 1..Len(UpperChars) : UpperChars[i] = c
    THEN LowerChars[CHOOSE i \in 1..Len(UpperChars) : UpperChars[i] = c]
    ELSE c

\* String.prototype.toLowerCase
ToLowerCase(s) == [i \in 1..Len(s) |-> LowerChar(s[i])]

\* String.prototype.startsWith
StartsWith(s, pre) ==
    /\ Len(s) >= Len(pre)
    /\ SubSeq(s, 1, Len(pre)) = pre

\* String.prototype.endsWith
EndsWith(s, suf) ==
    /\ Len(s) >= Len(suf)
    /\ SubSeq(s, Len(s) - Len(suf) + 1, Len(s)) = suf

\* path.basename of a path text without trailing separator
BaseNameText(p) ==
    LET slashes == {i \in 1..Len(p) : p[i] = "/"}
    IN  IF slashes = {} THEN p ELSE SubSeq(p, Max(slashes) + 1, Len(p))

\* path.extname: from the last dot of the base name to its end; empty when the
\* base name has no dot, starts with its only dot, or is "..".
ExtName(p) ==
    LET base == BaseNameText(p)
        dots == {i \in 1..Len(base) : base[i] = "."}
    IN  IF dots = {} THEN <<>>
        ELSE IF Max(dots) = 1 THEN <<>>
        ELSE IF base = <<".", ".">> THEN <<>>
        ELSE SubSeq(base, Max(dots), Len(base))

\* ---------------------------------------------------------------- literals
S_favicon_ico == <<"/","f","a","v","i","c","o","n",".","i","c","o">>
S_icon == <<"i","c","o","n">>
S_shortcut_icon == <<"s","h","o","r","t","c","u","t"," ","i","c","o","n">>
S_apple_touch_icon ==
    <<"a","p","p","l","e","-","t","o","u","c","h","-","i","c","o","n">>
S_undefined == <<"u","n","d","e","f","i","n","e","d">>
S_null == <<"n","u","l","l">>
S_dot_underscore == <<".","_">>
S_dot_html == <<".","h","t","m","l">>
S_ext_ico == <<".","i","c","o">>
S_ext_png == <<".","p","n","g">>
S_ext_svg == <<".","s","v","g">>
S_ext_jpg == <<".","j","p","g">>
S_ext_jpeg == <<".","j","p","e","g">>
S_image_x_icon == <<"i","m","a","g","e","/","x","-","i","c","o","n">>
S_image_png == <<"i","m","a","g","e","/","p","n","g">>
S_image_svg == <<"i","m","a","g","e","/","s","v","g","+","x","m","l">>
S_image_jpeg == <<"i","m","a","g","e","/","j","p","e","g">>

\* ---------------------------------------------------------------- JS values
\* A JavaScript value held by an options field: a string, undefined, null, or
\* (for a key the object does not have) missing.
JsStr(s) == [t |-> "string", s |-> s]
JsUndefined == [t |-> "undefined", s |-> <<>>]
JsNull == [t |-> "null", s |-> <<>>]
JsMissing == [t |-> "missing", s |-> <<>>]

\* JavaScript truthiness of such a value
Truthy(v) == v.t = "string" /\ v.s # <<>>

\* The text a template literal `${v}` produces
JsToString(v) ==
    IF v.t = "string" THEN v.s
    ELSE IF v.t = "null" THEN S_null
    ELSE S_undefined

OptionKeys == {"path", "rel", "type", "sizes"}

\* The options argument: left out, a bare string, or an object.
NoFields == [k \in OptionKeys |-> JsMissing]
OptOmitted == [kind |-> "omitted", str |-> <<>>, obj |-> NoFields]
OptString(s) == [kind |-> "string", str |-> s, obj |-> NoFields]
OptObject(p, r, t, z) ==
    [kind |-> "object", str |-> <<>>,
     obj |-> [k \in OptionKeys |->
                CASE k = "path" -> p [] k = "rel" -> r
                  [] k = "type" -> t [] k = "sizes" -> z]]

\* The default parameter value and the string shorthand: the options object
\* the body of injectFavicon works with.
OptionsObject_StringAsRel(options) ==
    IF options.kind = "omitted"
    THEN [NoFields EXCEPT !["path"] = JsStr(S_favicon_ico)]
    ELSE IF options.kind = "string"
    THEN [NoFields EXCEPT !["rel"] = JsStr(options.str)]
    ELSE options.obj
OptionsObject(options) ==
    IF options.kind = "omitted"
    THEN [NoFields EXCEPT !["path"] = JsStr(S_favicon_ico)]
    ELSE IF options.kind = "string"
    THEN [NoFields EXCEPT !["path"] = JsStr(options.str)]
    ELSE options.obj

Defaults ==
    [k \in OptionKeys |->
        CASE k = "path" -> JsStr(S_favicon_ico) [] k = "rel" -> JsStr(S_icon)
          [] k = "type" -> JsNull [] k = "sizes" -> JsNull]

\* { path, rel, type, sizes, ...options }: a key the object has wins over the
\* default, whatever its value.
FaviconOptions(options) ==
    LET obj == OptionsObject(options)
    IN  [k \in OptionKeys |-> IF obj[k].t = "missing" THEN Defaults[k] ELSE obj[k]]

\* path.extname throws a TypeError on a path that is not a string; it is only
\* called when no type was given.
DetectThrows(fo) == ~Truthy(fo["type"]) /\ fo["path"].t # "string"

MimeOfExt(ext) ==
    CASE ext = S_ext_ico -> JsStr(S_image_x_icon)
      [] ext = S_ext_png -> JsStr(S_image_png)
      [] ext = S_ext_svg -> JsStr(S_image_svg)
      [] ext \in {S_ext_jpg, S_ext_jpeg} -> JsStr(S_image_jpeg)
      [] OTHER -> JsNull

\* Auto-detection of the MIME type from the extension of path.
DetectType_CaseSensitive(fo) ==
    IF Truthy(fo["type"]) THEN fo
    ELSE LET m == MimeOfExt(ExtName(fo["path"].s))
         IN  IF m.t = "string" THEN [fo EXCEPT !["type"] = m] ELSE fo
DetectType(fo) ==
    IF Truthy(fo["type"]) THEN fo
    ELSE LET m == MimeOfExt(ToLowerCase(ExtName(fo["path"].s)))
         IN  IF m.t = "string" THEN [fo EXCEPT !["type"] = m] ELSE fo

\* ---------------------------------------------------------------- documents
\* An element: its tag name and its attributes in source order.
Attribute(n, v) == [n |-> n, v |-> v]
Element(tag, attrs) == [tag |-> tag, attrs |-> attrs]

\* $(el).attr(name): <<>> when the element has no such attribute (undefined),
\* <<value>> otherwise.
Attr(el, name) ==
    LET idx == {i \in 1..Len(el.attrs) : el.attrs[i].n = name}
    IN  IF idx = {} THEN <<>> ELSE <<el.attrs[Min(idx)].v>>

\* The text of an HTML file: whether it holds a head tag, the elements written
\* in its head and those written in its body.
FileText(headTag, head, body) == [headTag |-> headTag, head |-> head, body |-> body]

\* cheerio.load(html): the parser supplies html, head and body elements when
\* the text lacks them, so the tree always holds one head element.
CheerioLoad_NoSynthesis(text) ==
    [heads |-> IF text.headTag THEN 1 ELSE 0, head |-> text.head, body |-> text.body]
CheerioLoad(text) ==
    [heads |-> 1, head |-> text.head, body |-> text.body]

\* $.html(): the whole tree as text; every element of the tree is written out,
\* the head element included.
Serialize(dom) ==
    [headTag |-> dom.heads > 0, head |-> dom.head, body |-> dom.body]

\* $('link'): the link elements of the whole document, in document order.
IsLink(el) == el.tag = "link"
Links_HeadOnly(dom) == SelectSeq(dom.head, IsLink)
Links(dom) == SelectSeq(dom.head \o dom.body, IsLink)

\* $('head').length
HeadLength(dom) == dom.heads

FaviconRels_NoShortcut == {S_icon, S_apple_touch_icon}
FaviconRels == {S_icon, S_shortcut_icon, S_apple_touch_icon}

\* hasFavicon($)
hasFavicon(dom) ==
    \E i \in 1..Len(Links(dom)) :
        LET rel == Attr(Links(dom)[i], "rel")
        IN  /\ rel # <<>>
            /\ rel[1] # <<>>
            /\ rel[1] \in FaviconRels

\* The link tag text built by the template literals: the attributes written,
\* in order, each with the raw text put between its double quotes.
LinkTag_HrefRelSwapped(fo) ==
    <<Attribute("rel", JsToString(fo["path"])), Attribute("href", JsToString(fo["rel"]))>>
    \o (IF Truthy(fo["type"]) THEN <<Attribute("type", JsToString(fo["type"]))>> ELSE <<>>)
    \o (IF Truthy(fo["sizes"]) THEN <<Attribute("sizes", JsToString(fo["sizes"]))>> ELSE <<>>)
LinkTag(fo) ==
    <<Attribute("rel", JsToString(fo["rel"])), Attribute("href", JsToString(fo["path"]))>>
    \o (IF Truthy(fo["type"]) THEN <<Attribute("type", JsToString(fo["type"]))>> ELSE <<>>)
    \o (IF Truthy(fo["sizes"]) THEN <<Attribute("sizes", JsToString(fo["sizes"]))>> ELSE <<>>)

\* The value the parser reads back from a double-quoted attribute: the raw text
\* up to its first double quote.
HasQuote(s) == \E i \in 1..Len(s) : s[i] = "\""
QuotedValue(s) ==
    IF HasQuote(s)
    THEN SubSeq(s, 1, Min({i \in 1..Len(s) : s[i] = "\""}) - 1)
    ELSE s

\* What follows a double quote inside a raw value is no longer part of the
\* value: the parser reads it as one more attribute, named by that text.
RECURSIVE ParsedAttrs(_)
ParsedAttrs(raw) ==
    IF raw = <<>> THEN <<>>
    ELSE LET a == Head(raw)
         IN  <<Attribute(a.n, QuotedValue(a.v))>>
             \o (IF HasQuote(a.v) THEN <<Attribute("stray", <<>>)>> ELSE <<>>)
             \o ParsedAttrs(Tail(raw))

\* head.append(linkTag): the tag text is parsed and the element becomes the last
\* child of the head element.
AppendToHead_Prepend(dom, linkTag) ==
    [dom EXCEPT !.head = <<Element("link", ParsedAttrs(linkTag))>> \o @]
AppendToHead(dom, linkTag) ==
    [dom EXCEPT !.head = Append(@, Element("link", ParsedAttrs(linkTag)))]

\* ---------------------------------------------------------------- file system
\* A path is the sequence of its names; path.join(dir, item) appends a name and
\* path.basename(p) is its last name.
PathJoin(dir, item) == Append(dir, item)
BaseName(p) == p[Len(p)]

\* The path as text, names joined by the separator.
RECURSIVE PathString(_)
PathString(p) ==
    IF Len(p) = 1 THEN p[1]
    ELSE PathString(SubSeq(p, 1, Len(p) - 1)) \o <<"/">> \o p[Len(p)]

NoText == FileText(FALSE, <<>>, <<>>)
NoNode == [kind |-> "none", items |-> <<>>, text |-> NoText]
FileNode(text) == [kind |-> "file", items |-> <<>>, text |-> text]
DirNode(items) == [kind |-> "dir", items |-> items, text |-> NoText]
OtherNode == [kind |-> "other", items |-> <<>>, text |-> NoText]

NodeAt(f, p) == IF p \in DOMAIN f THEN f[p] ELSE NoNode

\* ---------------------------------------------------------------- inputs
N_root == <<"s","i","t","e">>
N_a == <<"a",".","h","t","m","l">>
N_b == <<"b",".","h","t","m","l">>
N_m == <<".","_","m",".","h","t","m","l">>
N_n == <<"n",".","t","x","t">>
N_sub == <<"s","u","b">>
N_d == <<".","_","d">>
N_X == <<"X",".","H","T","M","L">>
N_e == <<"e",".","h","t","m","l">>
N_sock == <<"s",".","h","t","m","l">>
N_q == <<"q",".","h","t","m","l">>
N_z == <<"z",".","h","t","m","l">>
N_gone == <<"g","o","n","e",".","h","t","m","l">>

S_existing == <<"/","e",".","i","c","o">>
S_ICON == <<"I","C","O","N">>
S_stylesheet == <<"s","t","y","l","e","s","h","e","e","t">>
S_mask_icon == <<"m","a","s","k","-","i","c","o","n">>
S_t_png == <<"/","t",".","p","n","g">>
S_T_PNG == <<"/","T",".","P","N","G">>
S_a_svg == <<"a",".","s","v","g">>
S_x_jpg == <<"x",".","j","p","g">>
S_x_jpeg == <<"x",".","j","p","e","g">>
S_noext == <<"n","o","e","x","t">>
S_dotfile == <<"/",".","i","c","o">>
S_webp == <<"/","w",".","w","e","b","p">>
S_quoted == <<"/","a","\"","b",".","p","n","g">>
S_180 == <<"1","8","0","x","1","8","0">>
S_custom_type == <<"x","/","y">>

E_title == Element("title", <<>>)
E_par == Element("p", <<>>)
E_link(rel, href) == Element("link", <<Attribute("rel", rel), Attribute("href", href)>>)
E_link_norel == Element("link", <<Attribute("href", S_existing)>>)

D_plain == FileText(TRUE, <<E_title>>, <<E_par>>)
D_icon == FileText(TRUE, <<E_title, E_link(S_icon, S_existing)>>, <<>>)
D_shortcut == FileText(TRUE, <<E_link(S_shortcut_icon, S_existing), E_title>>, <<>>)
D_apple == FileText(TRUE, <<E_link(S_apple_touch_icon, S_existing)>>, <<>>)
D_upper == FileText(TRUE, <<E_title, E_link(S_ICON, S_existing)>>, <<>>)
D_other == FileText(TRUE, <<E_link(S_stylesheet, S_existing), E_link_norel>>, <<>>)
D_nohead == FileText(FALSE, <<>>, <<E_par>>)
D_body == FileText(TRUE, <<E_title>>, <<E_par, E_link(S_icon, S_existing)>>)

\* The texts a single file is tried with.
FileDocs == {D_plain, D_icon, D_shortcut, D_apple, D_upper, D_other, D_nohead, D_body}

\* The options injectFavicon is tried with.
FileOptions ==
    { OptOmitted,
      OptString(S_T_PNG), OptString(S_a_svg), OptString(S_x_jpg), OptString(S_x_jpeg),
      OptString(S_noext), OptString(S_dotfile), OptString(S_quoted), OptString(<<>>),
      OptObject(JsStr(S_t_png), JsStr(S_apple_touch_icon), JsMissing, JsStr(S_180)),
      OptObject(JsStr(S_webp), JsStr(S_shortcut_icon), JsStr(S_custom_type), JsMissing),
      OptObject(JsStr(S_t_png), JsUndefined, JsStr(S_image_x_icon), JsMissing),
      OptObject(JsUndefined, JsMissing, JsMissing, JsMissing),
      OptObject(JsMissing, JsStr(S_mask_icon), JsMissing, JsMissing),
      OptObject(JsMissing, JsStr(<<>>), JsStr(<<>>), JsStr(<<>>)),
      OptObject(JsMissing, JsMissing, JsMissing, JsMissing) }

\* The options injectDir is tried with.
DirOptions ==
    { OptOmitted,
      OptObject(JsMissing, JsStr(S_mask_icon), JsMissing, JsMissing),
      OptObject(JsUndefined, JsMissing, JsMissing, JsMissing) }

Root == <<N_root>>

\* The entries a scanned directory is built from. Each name stands for one
\* kind of entry; a subdirectory comes with its own fixed content.
RootNames == {N_a, N_b, N_m, N_n, N_sub, N_d}

EntryNode(p) ==
    LET n == BaseName(p)
    IN  CASE n = N_a -> FileNode(D_plain)
          [] n = N_b -> FileNode(D_icon)
          [] n = N_m -> FileNode(D_plain)
          [] n = N_n -> FileNode(D_plain)
          [] n = N_sub -> DirNode(<<N_X, N_e, N_sock>>)
          [] n = N_d -> DirNode(<<N_z>>)
          [] n = N_X -> FileNode(D_nohead)
          [] n = N_e -> DirNode(<<N_q>>)
          [] n = N_sock -> OtherNode
          [] n = N_q -> FileNode(D_shortcut)
          [] n = N_z -> FileNode(D_plain)
          [] OTHER -> NoNode

AllPaths ==
    { Root } \cup { <<N_root, n>> : n \in RootNames \cup {N_sock} }
    \cup { <<N_root, N_sub, N_X>>, <<N_root, N_sub, N_e>>, <<N_root, N_sub, N_sock>>,
           <<N_root, N_sub, N_e, N_q>>, <<N_root, N_d, N_z>> }

Range(s) == {s[i] : i \in 1..Len(s)}

\* Listings of the root directory: distinct names, in any order.
Listings ==
    { l \in UNION { [1..n -> RootNames] : n \in 0..MaxEntries } :
        \A i, j \in 1..Len(l) : i # j => l[i] # l[j] }

\* The tree whose root directory lists `listing`.
Tree(listing) ==
    [p \in AllPaths |->
        IF p = Root THEN DirNode(listing)
        ELSE IF p[2] \in Range(listing) THEN EntryNode(p)
        ELSE NoNode]

\* A file system on which the root path does not exist.
EmptyFs == [p \in AllPaths |-> NoNode]

\* A directory holding the single entry `name`.
Single(name, node) ==
    [p \in AllPaths |->
        IF p = Root THEN DirNode(<<name>>)
        ELSE IF p = <<N_root, name>> THEN node
        ELSE NoNode]

\* The files, directories and missing paths injectFavicon is called on.
FileTargets ==
    { [path |-> <<N_root, N_a>>, fs |-> Single(N_a, FileNode(d))] : d \in FileDocs }
    \cup { [path |-> <<N_root, N_m>>, fs |-> Single(N_m, FileNode(D_plain))],
           [path |-> <<N_root, N_m>>, fs |-> Single(N_m, FileNode(D_icon))],
           [path |-> <<N_root, N_d>>, fs |-> Single(N_d, DirNode(<<>>))],
           [path |-> <<N_root, N_sub>>, fs |-> Single(N_sub, DirNode(<<>>))],
           [path |-> <<N_root, N_sock>>, fs |-> Single(N_sock, OtherNode)],
           [path |-> <<N_root, N_gone>>, fs |-> Single(N_a, FileNode(D_plain))] }

\* Two paths of one kind: two files of the same text, two ._ names, two
\* directories, a missing path taken twice.
PairFs(n1, n2, node) ==
    [p \in AllPaths |->
        IF p = Root THEN DirNode(<<n1, n2>>)
        ELSE IF p \in {<<N_root, n1>>, <<N_root, n2>>} THEN node
        ELSE NoNode]
PairTargets ==
    { [path |-> <<N_root, N_a>>, path2 |-> <<N_root, N_b>>,
       fs |-> PairFs(N_a, N_b, FileNode(d))] : d \in FileDocs }
    \cup { [path |-> <<N_root, N_m>>, path2 |-> <<N_root, N_d>>,
            fs |-> PairFs(N_m, N_d, FileNode(D_plain))],
           [path |-> <<N_root, N_sub>>, path2 |-> <<N_root, N_d>>,
            fs |-> PairFs(N_sub, N_d, DirNode(<<>>))],
           [path |-> <<N_root, N_gone>>, path2 |-> <<N_root, N_gone>>,
            fs |-> EmptyFs] }

\* The two ways of passing one path: a bare string and an object with that
\* path; no argument and the default string.
PairStrings == {S_favicon_ico, S_T_PNG, S_noext, S_quoted, <<>>}
PairOptions ==
    { [options |-> OptOmitted, options2 |-> OptString(S_favicon_ico)] }
    \cup { [options |-> OptString(x),
            options2 |-> OptObject(JsStr(x), JsMissing, JsMissing, JsMissing)] :
            x \in PairStrings }

\* A directory path that holds a regular file.
FileAtRoot == [p \in AllPaths |-> IF p = Root THEN FileNode(D_plain) ELSE NoNode]

\* The command lines the front end is run with: the values commander hands to
\* the action (favicon and rel have defaults, type and sizes are undefined
\* unless given), and whether <dir> is a relative path.
CliArg(favicon, rel, type, sizes, verbose, relative) ==
    [favicon |-> favicon, rel |-> rel, type |-> type, sizes |-> sizes,
     verbose |-> verbose, relative |-> relative]
NoArgs == CliArg(S_favicon_ico, S_icon, JsUndefined, JsUndefined, FALSE, FALSE)
CliArgs ==
    { CliArg(S_favicon_ico, S_icon, JsUndefined, JsUndefined, FALSE, TRUE),
      CliArg(S_t_png, S_apple_touch_icon, JsStr(S_custom_type), JsStr(S_180), TRUE, FALSE) }

\* ---------------------------------------------------------------- state
VARIABLES
    fs,         \* the file system: path -> node
    fs0,        \* the file system before the first call
    budget,     \* file system failures still to come
    failedOps,  \* <<operation, path>> pairs that have failed
    touched,    \* <<operation, path>> pairs performed so far
    call,       \* the injectFavicon call in progress
    stack,      \* the injectDir calls in progress, innermost last
    top,        \* the caller: its arguments, the calls made and their results
    called,     \* paths injectDir has passed to injectFavicon
    counted     \* paths injectDir has counted in total

vars == <<fs, fs0, budget, failedOps, touched, call, stack, top, called, counted>>

\* const stats = { total: 0, injected: 0, skipped: 0, failed: 0 }
InitStats == [total |-> 0, injected |-> 0, skipped |-> 0, failed |-> 0]

IdleCall ==
    [pc |-> "idle", filePath |-> Root, options |-> OptOmitted, fo |-> Defaults,
     pending |-> NoText, result |-> FALSE, diag |-> "none", writes |-> 0,
     pre |-> NoNode]

\* A call of injectFavicon(filePath, options), about to run its first statement.
NewCall(filePath, options) ==
    [IdleCall EXCEPT !.pc = "stat", !.filePath = filePath, !.options = options,
                     !.pre = NodeAt(fs, filePath)]

\* A call of injectDir(dirPath, options), about to run its first statement.
NewFrame(dirPath) ==
    [pc |-> "exists", dirPath |-> dirPath, items |-> <<>>, i |-> 1,
     stats |-> InitStats, caught |-> "none"]

\* Of two calls made without awaiting the first, the one that is not running:
\* its injectFavicon call or its injectDir calls, and what it has returned.
NoOther == [call |-> IdleCall, stack |-> <<>>, result |-> InitStats, done |-> FALSE]

\* The caller. For the command line front end: its arguments, its position,
\* the lines written to the output and error streams and the exit code of the
\* process (-1 while it runs).
InitTop(mode, path, options) ==
    [mode |-> mode, path |-> path, options |-> options, n |-> 0, hist |-> <<>>,
     done |-> FALSE, raised |-> FALSE, result |-> InitStats,
     path2 |-> path, options2 |-> options,
     args |-> NoArgs, pc |-> "none", out |-> <<>>, err |-> <<>>, exit |-> -1,
     other |-> NoOther]

InitCommon ==
    /\ fs0 = fs
    /\ budget = MaxFaults
    /\ failedOps = {}
    /\ touched = {}
    /\ call = IdleCall
    /\ stack = <<>>
    /\ called = {}
    /\ counted = {}

\* A program calling injectFavicon on one path.
InitFile ==
    /\ \E t \in FileTargets, o \in FileOptions :
        /\ fs = t.fs
        /\ top = InitTop("file", t.path, o)
    /\ InitCommon

\* A program calling injectDir on the root path.
InitDir ==
    /\ fs \in {Tree(l) : l \in Listings} \cup {EmptyFs}
    /\ \E o \in DirOptions : top = InitTop("dir", Root, o)
    /\ InitCommon

\* A program calling injectFavicon on one path, then on a second path of the
\* same content with the same favicon path passed the other way.
InitPair ==
    /\ \E t \in PairTargets, o \in PairOptions :
        /\ fs = t.fs
        /\ top = [InitTop("pair", t.path, o.options) EXCEPT
                    !.path2 = t.path2, !.options2 = o.options2]
    /\ InitCommon

\* The entries of the directories the command line front end is run on.
CliNames == {N_a, N_b, N_sub}

\* The command line front end run on the root path.
InitCli ==
    /\ fs \in {Tree(l) : l \in {x \in Listings : Range(x) \subseteq CliNames}}
             \cup {EmptyFs, FileAtRoot}
    /\ \E a \in CliArgs :
         top = [InitTop("cli", Root, OptOmitted) EXCEPT !.args = a, !.pc = "start"]
    /\ InitCommon

\* The options of two calls that overlap: the default icon and another one.
OverlapOptions == [options |-> OptOmitted, options2 |-> OptString(S_t_png)]

\* A program calling injectFavicon twice on one file, or injectDir twice on
\* the directory holding it, without awaiting the first call. The file has a
\* head and no favicon link; no file system operation fails.
InitOverlap ==
    /\ fs = Single(N_a, FileNode(D_plain))
    /\ \E m \in {"overlapFile", "overlapDir"} :
         top = [InitTop(m, IF m = "overlapFile" THEN <<N_root, N_a>> ELSE Root,
                        OverlapOptions.options)
                EXCEPT !.options2 = OverlapOptions.options2]
    /\ fs0 = fs
    /\ budget = 0
    /\ failedOps = {}
    /\ touched = {}
    /\ call = IdleCall
    /\ stack = <<>>
    /\ called = {}
    /\ counted = {}

Init == InitFile \/ InitPair \/ InitDir \/ InitCli \/ InitOverlap

\* ---------------------------------------------------------------- failures
\* An operation may fail while failures remain, and an operation that failed on
\* a path may fail on it again.
CanFail(op, p) == budget > 0 \/ <<op, p>> \in failedOps

\* The bookkeeping of a failure, or of none, of `op` on `p`.
Fault(op, p, fail) ==
    /\ fail => CanFail(op, p)
    /\ failedOps' = IF fail THEN failedOps \cup {<<op, p>>} ELSE failedOps
    /\ budget' = IF fail /\ <<op, p>> \notin failedOps THEN budget - 1 ELSE budget

\* The bookkeeping of performing `op` on `p`, failing or not.
Perform(op, p, fail) ==
    /\ Fault(op, p, fail)
    /\ touched' = touched \cup {<<op, p>>}

\* ---------------------------------------------------------------- injectFavicon
\* The statements of injectFavicon inside its try block.
FavTry(label) == label \in {"stat", "options", "readFile", "parse", "writeFile"}

\* An error thrown at `label`: caught, logged and turned into false when the
\* statement is inside the try block; otherwise it leaves the function.
FavThrow(c, label) ==
    IF FavTry(label)
    THEN [c EXCEPT !.pc = "returned", !.result = FALSE, !.diag = "error"]
    ELSE [c EXCEPT !.pc = "raised", !.diag = "error"]

FavReturn(c, result, diag) ==
    [c EXCEPT !.pc = "returned", !.result = result, !.diag = diag]

\* await fs.stat(filePath), the two early returns, and the options
FavStat_MetaFirst ==
    /\ call.pc = "stat"
    /\ LET p == call.filePath
           node == NodeAt(fs, p)
       IN  \E fail \in BOOLEAN :
            /\ fail => node.kind # "none"
            /\ Perform("stat", p, fail)
            /\ call' =
                IF fail \/ node.kind = "none" THEN FavThrow(call, "stat")
                ELSE IF StartsWith(BaseName(p), S_dot_underscore)
                     THEN FavReturn(call, FALSE, "metadata")
                ELSE IF node.kind # "file" THEN FavReturn(call, FALSE, "notfile")
                ELSE IF DetectThrows(FaviconOptions(call.options))
                     THEN FavThrow(call, "options")
                ELSE [call EXCEPT !.pc = "read",
                                  !.fo = DetectType(FaviconOptions(call.options))]
    /\ UNCHANGED <<fs, fs0, stack, top, called, counted>>
FavStat ==
    /\ call.pc = "stat"
    /\ LET p == call.filePath
           node == NodeAt(fs, p)
       IN  \E fail \in BOOLEAN :
            /\ fail => node.kind # "none"
            /\ Perform("stat", p, fail)
            /\ call' =
                IF fail \/ node.kind = "none" THEN FavThrow(call, "stat")
                ELSE IF node.kind # "file" THEN FavReturn(call, FALSE, "notfile")
                ELSE IF StartsWith(BaseName(p), S_dot_underscore)
                     THEN FavReturn(call, FALSE, "metadata")
                ELSE IF DetectThrows(FaviconOptions(call.options))
                     THEN FavThrow(call, "options")
                ELSE [call EXCEPT !.pc = "read",
                                  !.fo = DetectType(FaviconOptions(call.options))]
    /\ UNCHANGED <<fs, fs0, stack, top, called, counted>>

\* The tree after a successful presence and head check: the link tag appended.
Injected(dom, fo) == AppendToHead(dom, LinkTag(fo))

\* await fs.readFile, cheerio.load, the presence check, the head check and the
\* construction of the new text
FavRead ==
    /\ call.pc = "read"
    /\ LET p == call.filePath
           node == NodeAt(fs, p)
           dom == CheerioLoad(node.text)
       IN  \E f \in {"ok", "readFile", "parse"} :
            /\ f = "parse" => node.kind = "file"
            /\ Fault(IF f = "parse" THEN "parse" ELSE "readFile", p, f # "ok")
            /\ touched' = touched \cup {<<"readFile", p>>}
            /\ call' =
                IF f # "ok" THEN FavThrow(call, f)
                ELSE IF node.kind # "file" THEN FavThrow(call, "readFile")
                ELSE IF hasFavicon(dom) THEN FavReturn(call, FALSE, "exists")
                ELSE IF HeadLength(dom) = 0 THEN FavReturn(call, FALSE, "nohead")
                ELSE [call EXCEPT !.pc = "write",
                                  !.pending = Serialize(Injected(dom, call.fo))]
    /\ UNCHANGED <<fs, fs0, stack, top, called, counted>>

\* await fs.writeFile(filePath, $.html()); return true
FavWrite_NoAwait ==
    /\ call.pc = "write"
    /\ LET p == call.filePath
       IN  \E fail \in BOOLEAN :
            /\ Perform("writeFile", p, fail)
            /\ call' = [FavReturn(call, TRUE, "injected") EXCEPT !.writes = @ + 1]
            /\ fs' = IF fail THEN fs ELSE [fs EXCEPT ![p] = FileNode(call.pending)]
    /\ UNCHANGED <<fs0, stack, top, called, counted>>
FavWrite_Recheck ==
    /\ call.pc = "write"
    /\ LET p == call.filePath
       IN  \E fail \in BOOLEAN :
            /\ Perform("writeFile", p, fail)
            /\ IF fail
               THEN /\ call' = [FavThrow(call, "writeFile") EXCEPT !.writes = @ + 1]
                    /\ fs' = fs
               ELSE IF NodeAt(fs, p) # call.pre
               THEN /\ call' = FavReturn(call, FALSE, "exists")
                    /\ fs' = fs
               ELSE /\ call' = [FavReturn(call, TRUE, "injected") EXCEPT !.writes = @ + 1]
                    /\ fs' = [fs EXCEPT ![p] = FileNode(call.pending)]
    /\ UNCHANGED <<fs0, stack, top, called, counted>>
FavWrite ==
    /\ call.pc = "write"
    /\ LET p == call.filePath
       IN  \E fail \in BOOLEAN :
            /\ Perform("writeFile", p, fail)
            /\ IF fail
               THEN /\ call' = [FavThrow(call, "writeFile") EXCEPT !.writes = @ + 1]
                    /\ fs' = fs
               ELSE /\ call' = [FavReturn(call, TRUE, "injected") EXCEPT !.writes = @ + 1]
                    /\ fs' = [fs EXCEPT ![p] = FileNode(call.pending)]
    /\ UNCHANGED <<fs0, stack, top, called, counted>>

\* The record the caller keeps of a finished call.
Outcome(c) ==
    [result |-> c.result, diag |-> c.diag, writes |-> c.writes, pre |-> c.pre,
     post |-> NodeAt(fs, c.filePath)]

\* The program calls injectFavicon(path, options), again after each return;
\* the later calls of a program with two paths are on its second path.
CallInjectFavicon ==
    /\ top.mode \in {"file", "pair"}
    /\ call.pc \in {"idle", "returned"}
    /\ top.n < MaxCalls
    /\ top' = [top EXCEPT !.n = @ + 1,
                          !.hist = IF call.pc = "returned"
                                   THEN Append(@, Outcome(call)) ELSE @]
    /\ call' = IF top.n = 0 THEN NewCall(top.path, top.options)
               ELSE NewCall(top.path2, top.options2)
    /\ UNCHANGED <<fs, fs0, budget, failedOps, touched, stack, called, counted>>

\* ---------------------------------------------------------------- injectDir
\* The statements of injectDir inside its try block.
DirTry_RereadOutside(label) ==
    label \in {"exists", "readdir", "stat", "recurse", "inject"}
DirTry(label) ==
    label \in {"exists", "readdir", "stat", "recurse", "inject", "reread"}

\* catch (error) { console.error(...); return stats; }
CatchStats_Zeroed(stats) == InitStats
CatchStats_CountFailed(stats) == [stats EXCEPT !.failed = @ + 1]
CatchStats(stats) == stats

\* An error thrown at `label` of the injectDir call `f`.
DirThrow(f, label) ==
    IF DirTry(label)
    THEN [f EXCEPT !.pc = "return", !.stats = CatchStats(@), !.caught = label]
    ELSE [f EXCEPT !.pc = "raised"]

Depth == Len(stack)
Frame == stack[Depth]
SetFrame(f) == [stack EXCEPT ![Depth] = f]

\* The entry the loop of the innermost call is at.
AtItem == Depth > 0 /\ Frame.pc = "loop" /\ Frame.i <= Len(Frame.items)
Item == Frame.items[Frame.i]
ItemPath == PathJoin(Frame.dirPath, Item)

\* if (item.startsWith('._')) continue;
SkipsItem_Never(item) == FALSE
SkipsItem(item) == StartsWith(item, S_dot_underscore)

\* itemPath.toLowerCase().endsWith('.html')
IsHtmlPath_Any(p) == TRUE
IsHtmlPath_CaseSensitive(p) == EndsWith(PathString(p), S_dot_html)
IsHtmlPath(p) == EndsWith(ToLowerCase(PathString(p)), S_dot_html)

\* Field-wise addition of the statistics of a subdirectory.
AddStats(a, b) ==
    [total |-> a.total + b.total, injected |-> a.injected + b.injected,
     skipped |-> a.skipped + b.skipped, failed |-> a.failed + b.failed]

\* The program calls injectDir(path, options).
CallInjectDir ==
    /\ top.mode = "dir"
    /\ top.n = 0
    /\ top' = [top EXCEPT !.n = 1]
    /\ stack' = <<NewFrame(top.path)>>
    /\ UNCHANGED <<fs, fs0, budget, failedOps, touched, call, called, counted>>

\* The program, its first injectDir call having returned from a run in which
\* no file system operation failed, calls injectDir(path, options) a second
\* time, and no operation fails in that run either; what the first run
\* returned and left behind is kept, and the record of operations starts anew.
CallInjectDirAgain ==
    /\ top.mode = "dir"
    /\ top.n = 1
    /\ top.done
    /\ failedOps = {}
    /\ top' = [top EXCEPT !.n = 2, !.done = FALSE, !.result = InitStats,
                          !.hist = Append(@, [result |-> top.result, post |-> fs])]
    /\ stack' = <<NewFrame(top.path)>>
    /\ touched' = {}
    /\ called' = {}
    /\ counted' = {}
    /\ budget' = 0
    /\ UNCHANGED <<fs, fs0, failedOps, call>>

\* await fs.pathExists(dirPath): never throws, a failure reads as "no";
\* a missing directory throws inside the try block
DirExists ==
    /\ Depth > 0 /\ Frame.pc = "exists"
    /\ LET p == Frame.dirPath
       IN  \E fail \in BOOLEAN :
            /\ fail => NodeAt(fs, p).kind # "none"
            /\ Perform("pathExists", p, fail)
            /\ stack' = SetFrame(
                IF fail \/ NodeAt(fs, p).kind = "none"
                THEN DirThrow(Frame, "exists")
                ELSE [Frame EXCEPT !.pc = "readdir"])
    /\ UNCHANGED <<fs, fs0, call, top, called, counted>>

\* await fs.readdir(dirPath)
DirReaddir ==
    /\ Depth > 0 /\ Frame.pc = "readdir"
    /\ LET p == Frame.dirPath
       IN  \E fail \in BOOLEAN :
            /\ Perform("readdir", p, fail)
            /\ stack' = SetFrame(
                IF fail \/ NodeAt(fs, p).kind # "dir"
                THEN DirThrow(Frame, "readdir")
                ELSE [Frame EXCEPT !.pc = "loop", !.items = NodeAt(fs, p).items,
                                   !.i = 1])
    /\ UNCHANGED <<fs, fs0, call, top, called, counted>>

\* An entry named ._* is passed over.
DirSkip ==
    /\ AtItem
    /\ SkipsItem(Item)
    /\ stack' = SetFrame([Frame EXCEPT !.i = @ + 1])
    /\ UNCHANGED <<fs, fs0, budget, failedOps, touched, call, top, called, counted>>

\* await fs.stat(itemPath) and the branch on the kind of the entry: recurse
\* into a directory, count an .html file and call injectFavicon on it, pass
\* over anything else.
DirStat_NoAwait ==
    /\ AtItem
    /\ ~SkipsItem(Item)
    /\ LET p == ItemPath
           node == NodeAt(fs, p)
       IN  \E fail \in BOOLEAN :
            /\ fail => node.kind # "none"
            /\ Perform("stat", p, fail)
            /\ IF fail \/ node.kind = "none"
               THEN /\ stack' = SetFrame(DirThrow(Frame, "stat"))
                    /\ UNCHANGED <<call, called, counted>>
               ELSE IF node.kind = "dir"
               THEN /\ stack' = Append(SetFrame([Frame EXCEPT !.pc = "recurse"]),
                                       NewFrame(p))
                    /\ UNCHANGED <<call, called, counted>>
               ELSE IF node.kind = "file" /\ IsHtmlPath(p)
               THEN /\ stack' = SetFrame([Frame EXCEPT !.i = @ + 1,
                                                        !.stats.total = @ + 1])
                    /\ call' = NewCall(p, top.options)
                    /\ called' = called \cup {p}
                    /\ counted' = counted \cup {p}
               ELSE /\ stack' = SetFrame([Frame EXCEPT !.i = @ + 1])
                    /\ UNCHANGED <<call, called, counted>>
    /\ UNCHANGED <<fs, fs0, top>>
DirStat ==
    /\ AtItem
    /\ ~SkipsItem(Item)
    /\ LET p == ItemPath
           node == NodeAt(fs, p)
       IN  \E fail \in BOOLEAN :
            /\ fail => node.kind # "none"
            /\ Perform("stat", p, fail)
            /\ IF fail \/ node.kind = "none"
               THEN /\ stack' = SetFrame(DirThrow(Frame, "stat"))
                    /\ UNCHANGED <<call, called, counted>>
               ELSE IF node.kind = "dir"
               THEN /\ stack' = Append(SetFrame([Frame EXCEPT !.pc = "recurse"]),
                                       NewFrame(p))
                    /\ UNCHANGED <<call, called, counted>>
               ELSE IF node.kind = "file" /\ IsHtmlPath(p)
               THEN /\ stack' = SetFrame([Frame EXCEPT !.pc = "inject",
                                                        !.stats.total = @ + 1])
                    /\ call' = NewCall(p, top.options)
                    /\ called' = called \cup {p}
                    /\ counted' = counted \cup {p}
               ELSE /\ stack' = SetFrame([Frame EXCEPT !.i = @ + 1])
                    /\ UNCHANGED <<call, called, counted>>
    /\ UNCHANGED <<fs, fs0, top>>

\* const result = await injectFavicon(itemPath, options): true is counted as
\* injected, false leads to the second read of the file.
DirResult ==
    /\ Depth > 0 /\ Frame.pc = "inject"
    /\ call.pc \in {"returned", "raised"}
    /\ stack' = SetFrame(
        IF call.pc = "raised" THEN DirThrow(Frame, "inject")
        ELSE IF call.result
        THEN [Frame EXCEPT !.pc = "loop", !.i = @ + 1, !.stats.injected = @ + 1]
        ELSE [Frame EXCEPT !.pc = "reread"])
    /\ call' = IdleCall
    /\ UNCHANGED <<fs, fs0, budget, failedOps, touched, top, called, counted>>

\* await fs.readFile(itemPath), cheerio.load and hasFavicon after a false
\* result: skipped when a favicon is found, failed otherwise.
DirReread ==
    /\ Depth > 0 /\ Frame.pc = "reread"
    /\ LET p == ItemPath
           node == NodeAt(fs, p)
       IN  \E f \in {"ok", "readFile", "parse"} :
            /\ f = "parse" => node.kind = "file"
            /\ Fault(IF f = "parse" THEN "parse" ELSE "readFile", p, f # "ok")
            /\ touched' = touched \cup {<<"readFile", p>>}
            /\ stack' = SetFrame(
                IF f # "ok" \/ node.kind # "file" THEN DirThrow(Frame, "reread")
                ELSE IF hasFavicon(CheerioLoad(node.text))
                THEN [Frame EXCEPT !.pc = "loop", !.i = @ + 1, !.stats.skipped = @ + 1]
                ELSE [Frame EXCEPT !.pc = "loop", !.i = @ + 1, !.stats.failed = @ + 1])
    /\ UNCHANGED <<fs, fs0, call, top, called, counted>>

\* The loop is over: return stats.
DirLoopEnd ==
    /\ Depth > 0 /\ Frame.pc = "loop" /\ Frame.i > Len(Frame.items)
    /\ stack' = SetFrame([Frame EXCEPT !.pc = "return"])
    /\ UNCHANGED <<fs, fs0, budget, failedOps, touched, call, top, called, counted>>

\* The innermost call ends. Its statistics go to the program or are added to
\* those of the calling level, which moves to its next entry; an error that
\* left the call is thrown at the calling level's await.
DirReturn_NoAdvance ==
    /\ Depth > 0 /\ Frame.pc \in {"return", "raised"}
    /\ IF Depth = 1
       THEN /\ stack' = <<>>
            /\ top' = IF Frame.pc = "raised"
                      THEN [top EXCEPT !.raised = TRUE]
                      ELSE [top EXCEPT !.done = TRUE, !.result = Frame.stats]
       ELSE /\ LET parent == stack[Depth - 1]
                   rest == SubSeq(stack, 1, Depth - 2)
               IN  stack' = Append(rest,
                    IF Frame.pc = "raised" THEN DirThrow(parent, "recurse")
                    ELSE [parent EXCEPT !.pc = "loop",
                                        !.stats = AddStats(@, Frame.stats)])
            /\ top' = top
    /\ UNCHANGED <<fs, fs0, budget, failedOps, touched, call, called, counted>>
DirReturn ==
    /\ Depth > 0 /\ Frame.pc \in {"return", "raised"}
    /\ IF Depth = 1
       THEN /\ stack' = <<>>
            /\ top' = IF Frame.pc = "raised"
                      THEN [top EXCEPT !.raised = TRUE]
                      ELSE [top EXCEPT !.done = TRUE, !.result = Frame.stats]
       ELSE /\ LET parent == stack[Depth - 1]
                   rest == SubSeq(stack, 1, Depth - 2)
               IN  stack' = Append(rest,
                    IF Frame.pc = "raised" THEN DirThrow(parent, "recurse")
                    ELSE [parent EXCEPT !.pc = "loop", !.i = @ + 1,
                                        !.stats = AddStats(@, Frame.stats)])
            /\ top' = top
    /\ UNCHANGED <<fs, fs0, budget, failedOps, touched, call, called, counted>>

\* ---------------------------------------------------------------- overlapping calls
\* The program has two calls that are not awaited one after the other.
Overlap == top.mode \in {"overlapFile", "overlapDir"}

\* The running call, or the one that is not running, has returned.
Returned(c, st, done) ==
    IF top.mode = "overlapFile" THEN c.pc = "returned" ELSE st = <<>> /\ done

\* The program calls injectFavicon(path, options) and, without awaiting it,
\* injectFavicon(path, options2); or injectDir in the same way. Each call runs
\* up to its first await.
CallOverlapping ==
    /\ Overlap
    /\ top.n = 0
    /\ IF top.mode = "overlapFile"
       THEN /\ call' = NewCall(top.path, top.options)
            /\ stack' = stack
            /\ top' = [top EXCEPT !.n = 2,
                                  !.other.call = NewCall(top.path2, top.options2)]
       ELSE /\ call' = call
            /\ stack' = <<NewFrame(top.path)>>
            /\ top' = [top EXCEPT !.n = 2,
                                  !.other.stack = <<NewFrame(top.path2)>>]
    /\ UNCHANGED <<fs, fs0, budget, failedOps, touched, called, counted>>

\* The operation the running call awaits is pending and the one the other call
\* awaits completes: the other call runs, with its options, and the running
\* one waits. Nothing orders the two.
Resume ==
    /\ Overlap
    /\ top.n = 2
    /\ ~Returned(top.other.call, top.other.stack, top.other.done)
    /\ call' = top.other.call
    /\ stack' = top.other.stack
    /\ top' = [top EXCEPT !.other = [call |-> call, stack |-> stack,
                                     result |-> top.result, done |-> top.done],
                          !.result = top.other.result,
                          !.done = top.other.done,
                          !.options = top.options2,
                          !.options2 = top.options]
    /\ UNCHANGED <<fs, fs0, budget, failedOps, touched, called, counted>>

\* ---------------------------------------------------------------- command line
\* A line written with console.log or console.error: what it says and the
\* number it carries.
Line(text, n) == [text |-> text, n |-> n]

\* const faviconOptions = { path: options.favicon, rel: options.rel }, with type
\* and sizes added when they are truthy.
CliFaviconOptions(a) ==
    OptObject(JsStr(a.favicon), JsStr(a.rel),
              IF Truthy(a.type) THEN a.type ELSE JsMissing,
              IF Truthy(a.sizes) THEN a.sizes ELSE JsMissing)

\* The lines printed with --verbose before the scan.
CliVerboseLines(a) ==
    IF ~a.verbose THEN <<>>
    ELSE <<Line("Scanning directory", 0), Line("Using favicon options", 0),
           Line("Path", 0), Line("Rel", 0)>>
         \o (IF Truthy(a.type) THEN <<Line("Type", 0)>> ELSE <<>>)
         \o (IF Truthy(a.sizes) THEN <<Line("Sizes", 0)>> ELSE <<>>)

\* The summary printed after the scan.
CliSummaryLines_FailedAlways(stats) ==
    <<Line("Operation completed successfully!", 0),
      Line("Total HTML files found", stats.total),
      Line("Files injected with favicon", stats.injected),
      Line("Files skipped (already have favicon)", stats.skipped),
      Line("Files failed to inject", stats.failed)>>
CliSummaryLines(stats) ==
    <<Line("Operation completed successfully!", 0),
      Line("Total HTML files found", stats.total),
      Line("Files injected with favicon", stats.injected),
      Line("Files skipped (already have favicon)", stats.skipped)>>
    \o (IF stats.failed > 0 THEN <<Line("Files failed to inject", stats.failed)>> ELSE <<>>)

\* The exit code of a process whose action ran to its end: nothing sets one.
CliEndCode_FailedCounts(stats) == IF stats.failed > 0 THEN 1 ELSE 0
CliEndCode(stats) == 0

\* catch (error) { console.error('\nError:', error.message); process.exit(1); }
CliCatch(t) ==
    [t EXCEPT !.pc = "exited", !.err = Append(@, Line("Error:", 0)), !.exit = 1]

\* The action up to its call of injectDir: path.resolve(dir), which throws when
\* a relative path is resolved and the working directory is gone; the
\* existence check, which reports a path it cannot access as missing and then
\* ends the process with code 1; the options; the verbose lines.
CliStart ==
    /\ top.mode = "cli" /\ top.pc = "start"
    /\ \E f \in {"ok", "resolve", "pathExists"} :
         /\ f = "resolve" => top.args.relative
         /\ f = "pathExists" => NodeAt(fs, top.path).kind # "none"
         /\ IF f = "resolve"
            THEN /\ Fault("resolve", top.path, TRUE)
                 /\ touched' = touched
            ELSE Perform("cliPathExists", top.path, f = "pathExists")
         /\ IF f = "resolve"
            THEN /\ top' = CliCatch(top)
                 /\ stack' = stack
            ELSE IF f = "pathExists" \/ NodeAt(fs, top.path).kind = "none"
            THEN /\ top' = [top EXCEPT !.pc = "exited", !.exit = 1,
                                       !.err = Append(@, Line("does not exist", 0))]
                 /\ stack' = stack
            ELSE /\ top' = [top EXCEPT !.pc = "scan", !.n = 1,
                                       !.options = CliFaviconOptions(top.args),
                                       !.out = @ \o CliVerboseLines(top.args)]
                 /\ stack' = <<NewFrame(top.path)>>
    /\ UNCHANGED <<fs, fs0, call, called, counted>>

\* const stats = await injectDir(...) has settled: the summary is printed and
\* the process ends; an error thrown by injectDir is caught.
CliSummary ==
    /\ top.mode = "cli" /\ top.pc = "scan"
    /\ top.done \/ top.raised
    /\ top' = IF top.raised THEN CliCatch(top)
              ELSE [top EXCEPT !.pc = "ended",
                               !.out = @ \o CliSummaryLines(top.result),
                               !.exit = CliEndCode(top.result)]
    /\ UNCHANGED <<fs, fs0, budget, failedOps, touched, call, stack, called, counted>>

\* ---------------------------------------------------------------- specification
Next ==
    \/ CallInjectFavicon
    \/ FavStat
    \/ FavRead
    \/ FavWrite
    \/ CallInjectDir
    \/ CallInjectDirAgain
    \/ DirExists
    \/ DirReaddir
    \/ DirSkip
    \/ DirStat
    \/ DirResult
    \/ DirReread
    \/ DirLoopEnd
    \/ DirReturn
    \/ CallOverlapping
    \/ Resume
    \/ CliStart
    \/ CliSummary

Spec == Init /\ [][Next]_vars

\* Every awaited file system operation completes, and the continuation of an
\* await that has completed runs: no step of injectFavicon or injectDir that
\* can be taken is put off for ever. The two stat steps can be taken exactly
\* when the call is at them, and their weak fairness is written out with that
\* condition in the place of ENABLED.
FairSpec ==
    /\ Spec
    /\ ([]<>(call.pc # "stat") \/ []<><<FavStat>>_vars)
    /\ WF_vars(FavRead)
    /\ WF_vars(FavWrite)
    /\ WF_vars(DirExists)
    /\ WF_vars(DirReaddir)
    /\ WF_vars(DirSkip)
    /\ ([]<>~(AtItem /\ ~SkipsItem(Item)) \/ []<><<DirStat>>_vars)
    /\ WF_vars(DirResult)
    /\ WF_vars(DirReread)
    /\ WF_vars(DirLoopEnd)
    /\ WF_vars(DirReturn)

\* ---------------------------------------------------------------- properties
\* What the properties read off a file text, written out independently of the
\* operators above.
LinkElements(text) ==
    LET all == text.head \o text.body
        IsLinkElement(el) == el.tag = "link"
    IN  SelectSeq(all, IsLinkElement)

AttrIs(el, name, value) ==
    \E j \in 1..Len(el.attrs) : el.attrs[j].n = name /\ el.attrs[j].v = value

HasAttr(el, name) == \E j \in 1..Len(el.attrs) : el.attrs[j].n = name

CarriesFavicon(text) ==
    \E i \in 1..Len(LinkElements(text)) :
        \E r \in {S_icon, S_shortcut_icon, S_apple_touch_icon} :
            AttrIs(LinkElements(text)[i], "rel", r)

IsMetaName(n) == Len(n) >= 2 /\ n[1] = "." /\ n[2] = "_"

WithoutAt(s, j) == SubSeq(s, 1, j - 1) \o SubSeq(s, j + 1, Len(s))

\* The path and rel the caller configured: the string given, the default when
\* the field is not given.
ConfiguredPath(o) ==
    IF o.kind = "string" THEN o.str
    ELSE IF o.kind = "object" /\ o.obj["path"].t = "string" THEN o.obj["path"].s
    ELSE S_favicon_ico
ConfiguredRel(o) ==
    IF o.kind = "object" /\ o.obj["rel"].t = "string" THEN o.obj["rel"].s
    ELSE S_icon

NoQuoteIn(s) == \A i \in 1..Len(s) : s[i] # "\""

\* Options left out, a bare string, or an object whose path and rel, when it
\* has them, are strings; no double quote in either.
PlainOptions(o) ==
    /\ o.kind = "object" => /\ o.obj["path"].t \in {"missing", "string"}
                            /\ o.obj["rel"].t \in {"missing", "string"}
    /\ NoQuoteIn(ConfiguredPath(o))
    /\ NoQuoteIn(ConfiguredRel(o))

\* An injectFavicon call has returned and its result is not yet consumed; no
\* other call of the program ran while it did.
Finished == call.pc = "returned" /\ top.mode \notin {"overlapFile", "overlapDir"}
Now == NodeAt(fs, call.filePath)

\* The call ran on a regular file whose parsed document has a head element and
\* no favicon link.
C1_Case ==
    /\ Finished
    /\ call.pre.kind = "file"
    /\ HeadLength(CheerioLoad(call.pre.text)) > 0
    /\ ~CarriesFavicon(call.pre.text)

\* The call returned true and the file holds exactly one more link element,
\* with the configured href and rel.
C1_Injected ==
    /\ call.result = TRUE
    /\ Now.kind = "file"
    /\ LET before == LinkElements(call.pre.text)
           after == LinkElements(Now.text)
       IN  /\ Len(after) = Len(before) + 1
           /\ \E j \in 1..Len(after) :
                /\ WithoutAt(after, j) = before
                /\ AttrIs(after[j], "href", ConfiguredPath(call.options))
                /\ AttrIs(after[j], "rel", ConfiguredRel(call.options))

C2_NoInjectionWhenPresent ==
    (/\ Finished
     /\ call.pre.kind = "file"
     /\ CarriesFavicon(call.pre.text))
    => (/\ call.result = FALSE
        /\ call.writes = 0
        /\ Now = call.pre)

C2_Witness ==
    /\ Finished
    /\ call.pre.kind = "file"
    /\ call.pre.text = D_shortcut
    /\ call.diag = "exists"
    /\ call.result = FALSE

\* C3 as stated: two successive injectFavicon calls on one file with the same
\* options, whatever the rel: when the first returned true, the second returns
\* false and leaves the file as it found it.
C3_Idempotent ==
    (/\ top.mode = "file"
     /\ Finished
     /\ Len(top.hist) >= 1
     /\ top.hist[Len(top.hist)].result = TRUE)
    => (/\ call.result = FALSE
        /\ Now = call.pre)

\* The visible .html files of a tree: regular files whose name ends with .html
\* in any letter case.
HtmlName(n) ==
    /\ Len(n) >= 5
    /\ ToLowerCase(SubSeq(n, Len(n) - 4, Len(n))) = <<".", "h", "t", "m", "l">>
HtmlFiles(f) ==
    {p \in AllPaths : Len(p) > 1 /\ f[p].kind = "file" /\ HtmlName(p[Len(p)])}

\* Those of them no ._ name leads to.
UnderMeta(p) == \E i \in 2..Len(p) : IsMetaName(p[i])
VisibleHtmlFiles(f) == {p \in HtmlFiles(f) : ~UnderMeta(p)}

WithFavicon(f, S) == {p \in S : CarriesFavicon(f[p].text)}

ExpectedStats(f, S) ==
    [total |-> Cardinality(S),
     injected |-> Cardinality(S) - Cardinality(WithFavicon(f, S)),
     skipped |-> Cardinality(WithFavicon(f, S)),
     failed |-> 0]

\* The injectDir call of the program, its first, has returned.
DirDone == top.mode = "dir" /\ top.done /\ top.n = 1

\* The path option is a string or is left to its default.
PathIsText(o) == o.kind = "object" => o.obj["path"].t \in {"missing", "string"}

\* C4 as stated: on a tree with N regular .html files, k of them with a
\* favicon link, and no I/O error, injectDir returns total N, injected N - k,
\* skipped k, failed 0.
\* (Read in its most favourable sense: the suffix in any letter case, and no
\* error of any kind.)
C4_Original ==
    (DirDone /\ failedOps = {} /\ PathIsText(top.options))
    => top.result = ExpectedStats(fs0, HtmlFiles(fs0))

\* C4, amended: N and k count the regular .html files (suffix in any letter
\* case) that no ._ name leads to, and no error at all is thrown: no I/O error
\* and a path option that is a string.
C4_Amended ==
    (DirDone /\ failedOps = {} /\ PathIsText(top.options))
    => top.result = ExpectedStats(fs0, VisibleHtmlFiles(fs0))

C4_Witness ==
    /\ DirDone /\ failedOps = {} /\ PathIsText(top.options)
    /\ top.result.injected >= 1
    /\ top.result.skipped >= 2
    /\ \E p \in counted : Len(p) = 4
    /\ \E p \in counted : Len(p) = 2

\* C5: no call of injectFavicon or injectDir is left by an error: whatever
\* fails, each returns to its caller.
C5_NeverRaises ==
    /\ call.pc # "raised"
    /\ \A i \in 1..Len(stack) : stack[i].pc # "raised"
    /\ ~top.raised

\* The second read of a file, in injectDir, failed and was caught.
C5_Witness ==
    /\ Depth > 0
    /\ Frame.pc = "return"
    /\ Frame.caught = "reread"

\* The paths on which an operation failed.
BadPaths == {x[2] : x \in failedOps}
IsUnder(p, dir) == Len(p) >= Len(dir) /\ SubSeq(p, 1, Len(dir)) = dir

\* Exactly one entry of the tree failed: its stat, or its read or its write.
OneBadEntry ==
    /\ Cardinality(BadPaths) = 1
    /\ \A x \in failedOps : x[1] \in {"stat", "readFile", "writeFile"} /\ Len(x[2]) > 1

\* C6 as stated: when exactly one entry fails in an injectDir run, every other
\* .html file of the tree is still counted in total and still passed to
\* injectFavicon.
C6_OneBadEntry ==
    (DirDone /\ OneBadEntry)
    => \A p \in VisibleHtmlFiles(fs0) :
          (\A b \in BadPaths : ~IsUnder(p, b)) => (p \in counted /\ p \in called)

\* C7: injectDir on a path that does not exist returns all four counters zero,
\* is not left by an error, and reads and writes no file.
C7_MissingDirectory ==
    (top.mode = "dir" /\ fs0[Root].kind = "none")
    => (/\ \A x \in touched : x[1] \notin {"readFile", "writeFile", "readdir"}
        /\ fs = fs0
        /\ ~top.raised
        /\ (top.n = 1 /\ stack = <<>>)
              => (/\ top.done
                  /\ top.result.total = 0 /\ top.result.injected = 0
                  /\ top.result.skipped = 0 /\ top.result.failed = 0))

C7_Witness == DirDone /\ fs0[Root].kind = "none" /\ <<"pathExists", Root>> \in touched

\* A field of the options argument that holds a non-empty string.
Given(o, k) ==
    \/ o.kind = "string" /\ k = "path" /\ o.str # <<>>
    \/ o.kind = "object" /\ o.obj[k].t = "string" /\ o.obj[k].s # <<>>

\* C8 as stated: the options the tag is built from always have a non-empty
\* path and a non-empty rel; a field that is missing, undefined or empty falls
\* back to /favicon.ico, respectively icon.
C8_NeverEmpty ==
    call.pc \in {"read", "write"}
    => (/\ call.fo["path"].t = "string" /\ call.fo["path"].s # <<>>
        /\ call.fo["rel"].t = "string" /\ call.fo["rel"].s # <<>>
        /\ (~Given(call.options, "path") /\ call.options.kind # "omitted")
              => call.fo["path"].s = S_favicon_ico
        /\ ~Given(call.options, "rel") => call.fo["rel"].s = S_icon)

\* C9: in injectDir an entry named ._* is passed over before any stat: no
\* operation is performed on it or below it, it is not counted, not passed to
\* injectFavicon and not recursed into.
C9_MetaEntriesSkipped ==
    top.mode = "dir"
    => (/\ \A x \in touched : ~UnderMeta(x[2])
        /\ \A p \in counted \cup called : ~UnderMeta(p)
        /\ \A i \in 1..Len(stack) : ~UnderMeta(stack[i].dirPath))

C9_Witness ==
    /\ DirDone
    /\ called # {}
    /\ \E i \in 1..Len(fs0[Root].items) :
          /\ IsMetaName(fs0[Root].items[i])
          /\ fs0[<<N_root, fs0[Root].items[i]>>].kind = "dir"

\* The type the options ask for: the one given, else the one of the
\* lower-cased extension of the path, else none.
TypeGiven(o) == o.kind = "object" /\ o.obj["type"].t = "string" /\ o.obj["type"].s # <<>>
TypeOfExtension(ext) ==
    IF ext = <<".", "i", "c", "o">> THEN <<S_image_x_icon>>
    ELSE IF ext = <<".", "p", "n", "g">> THEN <<S_image_png>>
    ELSE IF ext = <<".", "s", "v", "g">> THEN <<S_image_svg>>
    ELSE IF ext = <<".", "j", "p", "g">> \/ ext = <<".", "j", "p", "e", "g">>
         THEN <<S_image_jpeg>>
    ELSE <<>>
ExpectedType(o) ==
    IF TypeGiven(o) THEN <<o.obj["type"].s>>
    ELSE TypeOfExtension(ToLowerCase(ExtName(ConfiguredPath(o))))

\* The link elements a call added to the file.
AddedLinks ==
    LET before == LinkElements(call.pre.text)
        after == LinkElements(Now.text)
    IN  {after[j] : j \in {i \in 1..Len(after) : WithoutAt(after, i) = before}}

\* C10: the type attribute of the injected tag is a function of the options
\* alone: the given type verbatim; else image/x-icon, image/png, image/svg+xml
\* or image/jpeg for the lower-cased extension .ico, .png, .svg or .jpg/.jpeg
\* of path; else no type attribute.
C10_TypeAttribute ==
    (Finished /\ call.result = TRUE)
    => (/\ AddedLinks # {}
        /\ \A el \in AddedLinks :
             IF ExpectedType(call.options) = <<>>
             THEN ~HasAttr(el, "type")
             ELSE Attr(el, "type") = ExpectedType(call.options))

C10_Witness ==
    /\ Finished /\ call.result = TRUE
    /\ call.options = OptString(S_T_PNG)
    /\ \E el \in AddedLinks : AttrIs(el, "type", S_image_png)

\* The names of the attributes of an element, in order.
AttrNames(el) == [i \in 1..Len(el.attrs) |-> el.attrs[i].n]

\* The sizes the options ask for: a non-empty string.
SizesGiven(o) == o.kind = "object" /\ o.obj["sizes"].t = "string" /\ o.obj["sizes"].s # <<>>

\* The attribute names the options call for: rel and href, then type when a
\* type is given or detected, then sizes when sizes is given.
ExpectedAttrNames(o) ==
    <<"rel", "href">>
    \o (IF ExpectedType(o) # <<>> THEN <<"type">> ELSE <<>>)
    \o (IF SizesGiven(o) THEN <<"sizes">> ELSE <<>>)

\* C11 as stated: the injected tag has the attributes rel, href, then type iff
\* a type is given or detected, then sizes iff sizes is given (a non-empty
\* string), in that order, and no other attribute.
C11_AttributeOrder ==
    (Finished /\ call.result = TRUE)
    => (/\ AddedLinks # {}
        /\ \A el \in AddedLinks : AttrNames(el) = ExpectedAttrNames(call.options))


\* A regular file, not named ._*, whose text has no head tag and no favicon
\* link.
HeadlessFile(node, p) ==
    /\ node.kind = "file"
    /\ ~node.text.headTag
    /\ ~CarriesFavicon(node.text)
    /\ ~IsMetaName(p[Len(p)])

CliOver == top.mode = "cli" /\ top.pc \in {"ended", "exited"}

\* Some line of the stream says `text`.
Says(stream, text) == \E i \in 1..Len(stream) : stream[i].text = text

SummaryPrinted ==
    \/ Says(top.out, "Operation completed successfully!")
    \/ Says(top.out, "Total HTML files found")
    \/ Says(top.out, "Files injected with favicon")
    \/ Says(top.out, "Files skipped (already have favicon)")
    \/ Says(top.out, "Files failed to inject")

\* The target was not found by the existence check (missing, or not
\* accessible), or an exception surfaced in the action.
TargetNotFound == fs0[Root].kind = "none" \/ <<"cliPathExists", Root>> \in failedOps
ExceptionSurfaced == <<"resolve", Root>> \in failedOps \/ top.raised

\* C13: when the target directory is not found or an exception surfaces in
\* the action, the process exits with code 1, a message is on the error
\* stream, no summary is printed and injectDir is never called; in every other
\* case the summary is printed, nothing is on the error stream and the process
\* ends with code 0, whatever the failed counter.
C13_ExitCodes ==
    /\ (top.mode = "cli" /\ (TargetNotFound \/ ExceptionSurfaced))
        => (/\ top.n = 0 /\ stack = <<>> /\ touched \subseteq {<<"cliPathExists", Root>>}
            /\ ~SummaryPrinted
            /\ top.pc # "ended"
            /\ top.pc = "exited" => (top.exit = 1 /\ Len(top.err) = 1))
    /\ (CliOver /\ ~(TargetNotFound \/ ExceptionSurfaced))
        => (/\ top.pc = "ended"
            /\ top.exit = 0
            /\ top.err = <<>>
            /\ Says(top.out, "Total HTML files found"))
    /\ (top.mode = "cli" /\ top.pc \in {"start", "scan"}) => top.exit = -1

\* A scan that counted a failed file has ended with code 0.
C13_Witness ==
    /\ CliOver
    /\ top.pc = "ended"
    /\ top.exit = 0
    /\ top.result.failed > 0

\* The line of the output stream that says `text`, as the number it carries.
Printed(text) ==
    {top.out[i].n : i \in {j \in 1..Len(top.out) : top.out[j].text = text}}

\* C15: the summary prints the total, injected and skipped counters that
\* injectDir returned, each once, and prints the failed counter if and only if
\* it is greater than zero.
C15_Summary ==
    (CliOver /\ top.pc = "ended")
    => (/\ Printed("Total HTML files found") = {top.result.total}
        /\ Printed("Files injected with favicon") = {top.result.injected}
        /\ Printed("Files skipped (already have favicon)") = {top.result.skipped}
        /\ Says(top.out, "Files failed to inject") <=> top.result.failed > 0
        /\ top.result.failed > 0 => Printed("Files failed to inject") = {top.result.failed})

\* A summary without failed line, after a scan that injected and skipped.
C15_Witness ==
    /\ CliOver /\ top.pc = "ended"
    /\ top.result.failed = 0
    /\ top.result.injected > 0
    /\ top.result.skipped > 0
    /\ ~Says(top.out, "Files failed to inject")


\* C14: injectFavicon(file, s) and injectFavicon(file, {path: s}) return the
\* same value and leave the same content, and so do injectFavicon(file) and
\* injectFavicon(file, '/favicon.ico'): of two such calls on two paths that
\* hold the same thing, with no I/O failure, the second returns what the first
\* returned and leaves at its path what the first left at its own.
C14_StringShorthand ==
    (/\ top.mode = "pair"
     /\ Finished
     /\ top.n = 2
     /\ failedOps = {})
    => (/\ call.pre = top.hist[1].pre
        /\ call.result = top.hist[1].result
        /\ Now = top.hist[1].post)

\* Both calls injected, the first with a bare string, the second with an object.
C14_Witness ==
    /\ top.mode = "pair" /\ Finished /\ top.n = 2 /\ failedOps = {}
    /\ top.options = OptString(S_T_PNG)
    /\ call.options.kind = "object"
    /\ call.result = TRUE
    /\ Now # call.pre


\* The counters of the innermost injectDir call after the step.
StatsAfter == stack'[Depth].stats

\* C16 as stated: for a file handed to injectFavicon exactly one counter goes
\* up by one: injected when injectFavicon returned true; otherwise, after the
\* second read, skipped when the file read again holds a favicon link, and
\* failed in every other case, a second read that fails included.
C16_Step ==
    ~Overlap =>
        /\ (Depth > 0 /\ Frame.pc = "inject" /\ call.pc = "returned" /\ call.result)
            => StatsAfter = [Frame.stats EXCEPT !.injected = @ + 1]
        /\ (Depth > 0 /\ Frame.pc = "inject" /\ call.pc = "returned" /\ ~call.result)
            => StatsAfter = Frame.stats
        /\ (Depth > 0 /\ Frame.pc = "reread")
            => LET node == NodeAt(fs, ItemPath)
                   read == node.kind = "file" /\ stack'[Depth].caught = "none"
               IN  IF read /\ CarriesFavicon(node.text)
                   THEN StatsAfter = [Frame.stats EXCEPT !.skipped = @ + 1]
                   ELSE StatsAfter = [Frame.stats EXCEPT !.failed = @ + 1]
C16_ExactlyOneCounter == [][C16_Step]_vars


\* C17: the short-circuits of injectFavicon apply in the order not a regular
\* file, ._ base name, existing favicon, missing head. A call that threw no
\* error reports the first that applies, returns false and leaves the path as
\* it was without a writeFile; the first two come before the file is read, so
\* a directory named ._* is reported as not a file.
C17_ShortCircuitOrder ==
    (Finished /\ call.diag # "error")
    => LET p == call.filePath
           isFile == call.pre.kind = "file"
           meta == IsMetaName(p[Len(p)])
           fav == CarriesFavicon(call.pre.text)
           unread == <<"readFile", p>> \notin touched
           untouched == call.result = FALSE /\ call.writes = 0 /\ Now = call.pre
       IN  /\ ~isFile => (call.diag = "notfile" /\ unread /\ untouched)
           /\ (isFile /\ meta) => (call.diag = "metadata" /\ unread /\ untouched)
           /\ (isFile /\ ~meta /\ fav) => (call.diag = "exists" /\ untouched)
           /\ call.diag = "nohead" => (isFile /\ ~meta /\ ~fav /\ untouched)
           /\ call.diag = "injected" => (isFile /\ ~meta /\ ~fav)

\* A directory named ._d was reported as not a file.
C17_Witness ==
    /\ Finished
    /\ call.pre.kind = "dir"
    /\ IsMetaName(call.filePath[Len(call.filePath)])
    /\ call.diag = "notfile"
    /\ call.result = FALSE


\* The call has read and parsed its file and run the presence check on it.
PresenceChecked ==
    \/ call.pc = "write"
    \/ Finished /\ call.diag \in {"exists", "nohead", "injected"}

\* Some link element of the text, in its head or in its body, has a rel
\* attribute whose value is exactly one of the three.
HasExactRel(text) ==
    \E i \in 1..Len(text.head \o text.body) :
        LET el == (text.head \o text.body)[i]
        IN  /\ el.tag = "link"
            /\ \E j \in 1..Len(el.attrs) :
                 /\ el.attrs[j].n = "rel"
                 /\ \/ el.attrs[j].v = <<"i","c","o","n">>
                    \/ el.attrs[j].v = <<"s","h","o","r","t","c","u","t"," ","i","c","o","n">>
                    \/ el.attrs[j].v = S_apple_touch_icon

\* C19: the presence check finds a favicon if and only if some link element
\* anywhere in the document has a rel exactly equal to icon, shortcut icon or
\* apple-touch-icon: a call that ran the check stopped on it in exactly that
\* case.
C19_HasFaviconIff ==
    PresenceChecked => (call.diag = "exists" <=> HasExactRel(call.pre.text))

\* The check found the favicon link that sits in the body of a document.
C19_Witness ==
    /\ Finished
    /\ call.diag = "exists"
    /\ ~CarriesFavicon([call.pre.text EXCEPT !.body = <<>>])
    /\ HasExactRel(call.pre.text)


\* Every failure so far happened inside a subdirectory: on a path below an
\* entry of the root, or on listing such an entry.
FailuresBelowRoot ==
    \A x \in failedOps :
        \/ Len(x[2]) >= 3
        \/ Len(x[2]) = 2 /\ x[1] \in {"pathExists", "readdir"}

\* C20 (of a program with one scan at a time): an error thrown while
\* injectDir scans a level ends that call with the
\* counters as they stood when it was thrown; a call that ends hands its
\* counters to its caller, the program or the level above, which adds them to
\* its own and goes on with its next entry; so when every failure lies inside
\* subdirectories, the root level has counted each of its own .html files.
C20_Step ==
    ~Overlap =>
        /\ (/\ Depth > 0
            /\ Len(stack') = Depth
            /\ Frame.caught = "none"
            /\ stack'[Depth].caught # "none")
            => (/\ stack'[Depth].stats = Frame.stats
                /\ stack'[Depth].pc = "return")
        /\ (Depth >= 2 /\ Frame.pc = "return")
            => (/\ Len(stack') = Depth - 1
                /\ stack'[Depth - 1].stats.total = stack[Depth - 1].stats.total + Frame.stats.total
                /\ stack'[Depth - 1].stats.injected
                     = stack[Depth - 1].stats.injected + Frame.stats.injected
                /\ stack'[Depth - 1].stats.skipped
                     = stack[Depth - 1].stats.skipped + Frame.stats.skipped
                /\ stack'[Depth - 1].stats.failed
                     = stack[Depth - 1].stats.failed + Frame.stats.failed
                /\ stack'[Depth - 1].pc = "loop"
                /\ stack'[Depth - 1].i = stack[Depth - 1].i + 1
                /\ stack'[Depth - 1].caught = "none")
        /\ (Depth = 1 /\ Frame.pc = "return")
            => (/\ top'.done
                /\ top'.result = Frame.stats
                /\ FailuresBelowRoot
                     => \A p \in VisibleHtmlFiles(fs0) : Len(p) = 2 => p \in counted)
C20_PartialStats == [][C20_Step]_vars

\* A subdirectory level was ended by an error after it had counted a file,
\* and the level above has an entry left.
C20_Witness ==
    /\ Depth = 2
    /\ Frame.pc = "return"
    /\ Frame.caught # "none"
    /\ Frame.stats.total > 0
    /\ stack[1].i < Len(stack[1].items)


\* A scan is running or has run: injectDir was called by a program or by the
\* command line front end.
Scanning == top.mode \in {"dir", "cli"}

\* C21: injectDir counts in total, and hands to injectFavicon, only regular
\* files whose name ends with .html in any letter case, and each counted file
\* is handed over; an entry that is neither a directory nor such a file is
\* never counted, read, listed or written; a directory named *.html is not
\* counted; and the total returned is the number of files counted.
C21_OnlyHtmlFiles ==
    Scanning
    => (/\ counted = called
        /\ \A p \in counted : fs0[p].kind = "file" /\ HtmlName(p[Len(p)])
        /\ \A p \in AllPaths :
             (/\ Len(p) > 1
              /\ fs0[p].kind \in {"file", "other"}
              /\ ~(fs0[p].kind = "file" /\ HtmlName(p[Len(p)])))
             => (/\ p \notin counted
                 /\ \A op \in {"readFile", "writeFile", "readdir", "pathExists"} :
                      <<op, p>> \notin touched
                 /\ fs[p] = fs0[p])
        /\ \A p \in AllPaths : fs0[p].kind = "dir" => p \notin counted
        /\ top.done => top.result.total = Cardinality(counted))

\* A scan met a socket named s.html, a directory named e.html and a file
\* n.txt: it recursed into the directory and counted the file inside.
C21_Witness ==
    /\ DirDone
    /\ <<"stat", <<N_root, N_sub, N_sock>>>> \in touched
    /\ <<"readdir", <<N_root, N_sub, N_e>>>> \in touched
    /\ <<N_root, N_sub, N_e, N_q>> \in counted
    /\ <<N_root, N_sub, N_X>> \in counted
    /\ \E i \in 1..Len(fs0[Root].items) : fs0[Root].items[i] = N_n


\* The entries of the level `f` that it has not started on.
NotStarted(f) ==
    {f.items[j] : j \in (IF f.pc = "loop" THEN f.i ELSE f.i + 1)..Len(f.items)}

\* C22: one thing at a time, depth first in listing order. Every level but
\* the innermost waits for the level below, which scans the entry the waiting
\* level is at; an injectFavicon call in progress is the one the innermost
\* level waits for, on the entry it is at; and no operation has been performed
\* on or below an entry that a level has not started on.
C22_Sequential ==
    Scanning
    => (/\ \A k \in 1..(Depth - 1) :
             /\ stack[k].pc = "recurse"
             /\ stack[k].i <= Len(stack[k].items)
             /\ stack[k + 1].dirPath = Append(stack[k].dirPath, stack[k].items[stack[k].i])
        /\ call.pc # "idle"
             => (/\ Depth > 0
                 /\ Frame.pc = "inject"
                 /\ call.filePath = Append(Frame.dirPath, Frame.items[Frame.i]))
        /\ \A k \in 1..Depth : \A n \in NotStarted(stack[k]) : \A x \in touched :
             ~IsUnder(x[2], Append(stack[k].dirPath, n)))

\* A file of a subdirectory is about to be written while the level above
\* waits with an entry left.
C22_Witness ==
    /\ Scanning
    /\ Depth = 2
    /\ call.pc = "write"
    /\ stack[1].pc = "recurse"
    /\ stack[1].i < Len(stack[1].items)


Balanced(st) ==
    /\ st.total = st.injected + st.skipped + st.failed
    /\ st.total >= 0 /\ st.injected >= 0 /\ st.skipped >= 0 /\ st.failed >= 0

\* C24 as stated: every record an injectDir call returns, at any depth, from
\* the end of its loop or from its catch, has total = injected + skipped +
\* failed and no negative counter.
C24_StatsBalanced ==
    /\ \A k \in 1..Depth : stack[k].pc = "return" => Balanced(stack[k].stats)
    /\ top.done => Balanced(top.result)


\* C25: a call of injectFavicon calls writeFile at most once and the path
\* holds what it held until then; it returns true exactly when that write was
\* made and completed, the path then holding the new text; a call that
\* returned false without an error made no write, and a call whose write
\* failed returned false.
C25_WriteOnce ==
    /\ call.writes <= 1
    /\ (call.pc \in {"stat", "read", "write"} /\ ~Overlap)
         => (call.writes = 0 /\ NodeAt(fs, call.filePath) = call.pre)
    /\ Finished
         => (/\ call.result = TRUE
                  <=> (/\ call.writes = 1
                       /\ Now.kind = "file"
                       /\ Now.text = call.pending
                       /\ Now # call.pre)
             /\ (call.result = FALSE /\ call.diag # "error")
                  => (call.writes = 0 /\ Now = call.pre)
             /\ (call.writes = 1 /\ Now = call.pre)
                  => (call.result = FALSE /\ call.diag = "error"))

\* A call whose write failed has returned false.
C25_Witness ==
    /\ Finished
    /\ call.writes = 1
    /\ call.result = FALSE
    /\ <<"writeFile", call.filePath>> \in failedOps


\* The second injectDir run of the program has returned, and no error was
\* thrown in either run.
RerunDone ==
    /\ top.mode = "dir" /\ top.n = 2 /\ top.done
    /\ failedOps = {}
    /\ PathIsText(top.options)

\* C26 as stated: after an injectDir run without errors, a second run over the
\* same tree with the same options returns the same total, injected 0 and
\* skipped = total, and leaves every file as the first run left it.
C26_RerunStable ==
    RerunDone
    => (/\ top.result.total = top.hist[1].result.total
        /\ top.result.injected = 0
        /\ top.result.skipped = top.result.total
        /\ fs = top.hist[1].post)


\* The file two overlapping calls work on, and the two calls having returned.
SharedFile == NodeAt(fs, <<N_root, N_a>>)
BothReturned ==
    /\ top.n = 2
    /\ IF top.mode = "overlapFile"
       THEN call.pc = "returned" /\ top.other.call.pc = "returned"
       ELSE /\ top.mode = "overlapDir"
            /\ stack = <<>> /\ top.done
            /\ top.other.stack = <<>> /\ top.other.done

\* C27: two overlapping calls on one favicon-less file are not serialized.
\* When both injectFavicon calls have passed the presence check, each on the
\* file as it was, both return true, and the file holds the text of the call
\* that wrote last, with that call's link and no other. When two overlapping
\* injectDir calls have returned, each has counted the one file, and when
\* their injected counters add up to more than the one file there is, the
\* file still holds a single link.
C27_NotSerialized ==
    /\ (/\ top.mode = "overlapFile"
        /\ BothReturned
        /\ call.pending # NoText
        /\ top.other.call.pending # NoText)
       => (/\ call.result = TRUE
           /\ top.other.call.result = TRUE
           /\ call.writes = 1 /\ top.other.call.writes = 1
           /\ SharedFile.text = call.pending
           /\ SharedFile.text # top.other.call.pending
           /\ Len(LinkElements(SharedFile.text)) = 1
           /\ AttrIs(LinkElements(SharedFile.text)[1], "href", ConfiguredPath(top.options)))
    /\ (top.mode = "overlapDir" /\ BothReturned)
       => (/\ top.result.total = 1
           /\ top.other.result.total = 1
           /\ top.result.injected + top.other.result.injected \in {1, 2}
           /\ top.result.injected + top.other.result.injected > 1
                => (/\ Len(LinkElements(SharedFile.text)) = 1
                    /\ \E o \in {top.options, top.options2} :
                         AttrIs(LinkElements(SharedFile.text)[1], "href",
                                ConfiguredPath(o))))

\* Both injectFavicon calls passed the presence check before either wrote,
\* both returned true, and the file holds the text of the last writer only.
C27_Witness ==
    /\ top.mode = "overlapFile"
    /\ BothReturned
    /\ call.result = TRUE /\ top.other.call.result = TRUE
    /\ SharedFile.text = call.pending
    /\ call.pending # top.other.call.pending
    /\ Len(LinkElements(SharedFile.text)) = 1


\* A scan is in progress; a scan has returned to its caller.
ScanRunning == Scanning /\ stack # <<>>
ScanOver == Scanning /\ stack = <<>> /\ top.done

\* The directories of the tree, those of them no ._ name leads to, and the
\* directories the scan has listed.
Directories(f) == {p \in AllPaths : f[p].kind = "dir"}
VisibleDirectories(f) == {p \in Directories(f) : ~UnderMeta(p)}
Listed == {p \in AllPaths : <<"readdir", p>> \in touched}

\* A directory is listed only if it has not been listed, and a file is passed
\* to injectFavicon only if it has not been passed.
C28_Once ==
    Scanning
    => (/\ (Depth > 0 /\ Frame.pc = "readdir" /\ stack' # stack)
             => Frame.dirPath \notin Listed
        /\ (call.pc # "stat" /\ call'.pc = "stat")
             => call'.filePath \notin called)

\* A level that returns from the end of its loop has listed its directory,
\* has called injectDir on every directory among its entries and has passed
\* every .html file among them to injectFavicon, ._ names apart.
C28_Level ==
    Scanning
    => \A k \in 1..Depth :
         (stack[k].pc = "return" /\ stack[k].caught = "none")
         => (/\ stack[k].dirPath \in Listed
             /\ \A j \in 1..Len(stack[k].items) :
                  LET n == stack[k].items[j]
                      p == Append(stack[k].dirPath, n)
                  IN  ~IsMetaName(n)
                      => (/\ fs0[p].kind = "dir" => <<"pathExists", p>> \in touched
                          /\ (fs0[p].kind = "file" /\ HtmlName(n)) => p \in called))

\* C28 as stated: a scan of a finite tree terminates; by then, when no error
\* was thrown, it has listed each directory of the tree, and has passed each
\* counted .html file to injectFavicon; and it lists no directory and passes
\* no file twice.
C28_Original ==
    /\ ScanRunning ~> ScanOver
    /\ []((ScanOver /\ failedOps = {} /\ fs0[Root].kind = "dir")
           => (Listed = Directories(fs0) /\ called = counted))
    /\ [][C28_Once]_vars

\* C28, amended: the directories listed are those no ._ name leads to, and the
\* files passed are the .html files no ._ name leads to; every level that is
\* not aborted has dealt with each of its entries.
C28_Amended ==
    /\ ScanRunning ~> ScanOver
    /\ []((ScanOver /\ failedOps = {} /\ fs0[Root].kind = "dir")
           => (/\ Listed = VisibleDirectories(fs0)
               /\ called = VisibleHtmlFiles(fs0)
               /\ called = counted))
    /\ []C28_Level
    /\ [][C28_Once]_vars

\* A scan without errors has returned from a tree of three directories to
\* list, one of them two levels down, next to a directory named ._d.
C28_Witness ==
    /\ ScanOver
    /\ failedOps = {}
    /\ Listed = {Root, <<N_root, N_sub>>, <<N_root, N_sub, N_e>>}
    /\ Directories(fs0) # Listed
    /\ called = {<<N_root, N_sub, N_X>>, <<N_root, N_sub, N_e, N_q>>}


====
